---- MODULE Spec2Model ----
(***************************************************************************)
(* Model of the vsearch ingestion pipeline (src/src/main.rs).              *)
(*                                                                         *)
(* Part I  : the resumable batch-ingestion loop of main(): startup read of *)
(*           the progress slot, ordered scan of the "cases" partition,     *)
(*           skip / decode / filter, chunking, the single-chunk batch and  *)
(*           the multi-chunk branch, size-triggered flush, tail flush,     *)
(*           and the process being killed and started again.               *)
(* Part II : chunk_chinese_text_backward and its helpers as a state        *)
(*           machine over the units of one text.                           *)
(* Part III: estimate_tokens and length_weighted_mean called on their own, *)
(*           on small texts and on small integer vectors.                  *)
(*                                                                         *)
(* Abstractions.  A stored Case is its decodability, its case_type and its *)
(* full_text; a full_text is one of four text classes and the result of    *)
(* remove_html_tags + chunk_chinese_text_backward(.., 512, 512) on it is   *)
(* given by ChunkLens (number of chunks and their byte lengths).  A chunk  *)
(* text is named <<id, k>> (k-th chunk of document id).  An embedding is   *)
(* symbolic: the vector of text t is t itself, an aggregated vector is the *)
(* zipped list of embeddings and weights it was computed from.             *)
(***************************************************************************)
EXTENDS Integers, Sequences, FiniteSets, TLC

\* ---------------------------------------------------------------- bounds
MaxId == 3          \* generic stores hold the identifiers 0..MaxId
MaxBatch == 3       \* CONFIG.batch_size ranges over 1..MaxBatch
MaxRestarts == 2    \* number of times the supervisor starts the process again

\* ------------------------------------------------------------- constants
TargetCaseType == "criminal"     \* the literal case_type compared at main.rs:82

VARIABLES
  store,        \* the "cases" partition: identifier -> stored Case
  batch_size,   \* CONFIG.batch_size.unwrap_or(64)
  progress_ks,  \* the "progress" slot: <<>> when absent, <<v>> when present
  index,        \* the qdrant collection: point id -> vector
  pc,           \* position of the process in main()
  progress,     \* the value read at startup (main.rs:65)
  db_iter,      \* the keys db.iter() has not yielded yet, ascending
  id,           \* the identifier of the current loop iteration
  documents,    \* pending chunk texts          (main.rs:61)
  ids,          \* pending identifiers          (main.rs:62)
  lengths,      \* chunk lengths                (main.rs:60)
  tmp,          \* chunks of the current multi-chunk document (main.rs:98)
  embeddings,   \* result of the last model.embed call
  log,          \* history: what this pass has done so far, in order
  passNo,       \* history: number of restarts so far
  resumed,      \* history: this pass follows a pass that was terminated
  indexAtStart, \* history: the point ids present when this pass started
  startReads,   \* history: the values read from the slot at each startup
  ch_text,      \* chunker: the text argument
  ch_target,    \* chunker: target_tokens
  ch_max,       \* chunker: max_tokens
  ch_pc,        \* chunker: position in chunk_chinese_text_backward
  ch_units,     \* chunker: the units not scanned yet, over all paragraphs
  ch_buffer,    \* chunker: buffer          (main.rs:191)
  ch_tokens,    \* chunker: buffer_tokens   (main.rs:192)
  ch_chunks,    \* chunker: chunks          (main.rs:190)
  ch_sizes,     \* history: number of units of each emitted chunk
  ch_rolled,    \* history: the largest number of units rolled back at once
  tk_text,      \* estimate_tokens: the text argument
  tk_pc,        \* estimate_tokens: "call", "done" ("idle" when not called)
  tk_tokens,    \* estimate_tokens: the value returned
  lw_embeddings, \* length_weighted_mean: the embeddings argument
  lw_lengths,   \* length_weighted_mean: the lengths argument
  lw_pc,        \* length_weighted_mean: "call", "done" ("idle" when not called)
  lw_result     \* length_weighted_mean: the outcome of the call

vars == << store, batch_size, progress_ks, index, pc, progress, db_iter, id,
           documents, ids, lengths, tmp, embeddings, log, passNo, resumed,
           indexAtStart, startReads, ch_text, ch_target, ch_max, ch_pc, ch_units,
           ch_buffer, ch_tokens, ch_chunks, ch_sizes, ch_rolled,
           tk_text, tk_pc, tk_tokens, lw_embeddings, lw_lengths, lw_pc, lw_result >>

fnvars == << tk_text, tk_pc, tk_tokens, lw_embeddings, lw_lengths, lw_pc, lw_result >>

chvars == << ch_text, ch_target, ch_max, ch_pc, ch_units, ch_buffer, ch_tokens,
             ch_chunks, ch_sizes, ch_rolled >>

mainvars == << store, batch_size, progress_ks, index, pc, progress, db_iter, id,
               documents, ids, lengths, tmp, embeddings, log, passNo, resumed,
               indexAtStart, startReads >>

\* ------------------------------------------------------------- the store
\* Case (lib.rs:19-51) reduced to the fields main() reads, plus whether the
\* stored bytes decode at all.
Bad      == [valid |-> FALSE, case_type |-> "criminal", full_text |-> "short"]
Civil    == [valid |-> TRUE,  case_type |-> "civil",    full_text |-> "short"]
NoText   == [valid |-> TRUE,  case_type |-> "criminal", full_text |-> ""]
Blank    == [valid |-> TRUE,  case_type |-> "criminal", full_text |-> "blank"]
Short    == [valid |-> TRUE,  case_type |-> "criminal", full_text |-> "short"]
Long     == [valid |-> TRUE,  case_type |-> "criminal", full_text |-> "long"]

Case == {Bad, Civil, NoText, Blank, Short, Long}

\* The store of the end-to-end scenario: 1,2,3 eligible single-chunk
\* documents, 4 of another category, 5 with empty text.
E2EStore == (1 :> Short) @@ (2 :> Short) @@ (3 :> Short) @@ (4 :> Civil) @@ (5 :> NoText)

\* Byte lengths of the chunks that remove_html_tags followed by
\* chunk_chinese_text_backward(.., 512, 512) yields for a text class:
\* markup-only text gives no chunk, a short text one, a long text two.
ChunkLens(text) ==
  CASE text = "blank" -> << >>
    [] text = "short" -> << 3 >>
    [] text = "long"  -> << 2, 4 >>
    [] OTHER          -> << >>

\* chunks of document k: the texts <<k,1>>, <<k,2>>, ...
Chunks(k) == [ j \in 1..Len(ChunkLens(store[k].full_text)) |-> << k, j >> ]

RECURSIVE Ascending(_)
Ascending(S) ==
  IF S = {} THEN << >>
  ELSE LET m == CHOOSE x \in S : \A y \in S : x <= y
       IN << m >> \o Ascending(S \ {m})

\* db.iter(): the keys in ascending order (big-endian u32 keys)
DbIter == Ascending(DOMAIN store)

Range(s) == { s[i] : i \in 1..Len(s) }

Ev(op, k, arg) == [op |-> op, id |-> k, arg |-> arg]

\* ------------------------------------------------- external collaborators
\* model.embed(texts): one vector per text, same order
Embed(texts) == [ i \in 1..Len(texts) |-> texts[i] ]

Min(a, b) == IF a <= b THEN a ELSE b

\* length_weighted_mean + l2_normalize on symbolic vectors: zip() stops at
\* the shorter of the two sequences.
avg_embedding(embs, lens) ==
  [ embs |-> SubSeq(embs, 1, Min(Len(embs), Len(lens))),
    weights |-> SubSeq(lens, 1, Min(Len(embs), Len(lens))) ]

Plain(e) == [ embs |-> << e >>, weights |-> << >> ]

\* upload_embeddings: points[i] = (ids[i], embeddings[i]); upsert overwrites
Upsert(idx, vecs, pids) ==
  [ d \in DOMAIN idx \cup { pids[i] : i \in 1..Len(vecs) } |->
      IF \E i \in 1..Len(vecs) : pids[i] = d
      THEN vecs[CHOOSE i \in 1..Len(vecs) : pids[i] = d /\ \A j \in 1..Len(vecs) : pids[j] = d => j <= i]
      ELSE idx[d] ]

\* ------------------------------------------------------------------ Init
Fresh ==
  /\ progress_ks = << >>
  /\ index = << >>
  /\ pc = "start"
  /\ progress = 0
  /\ db_iter = DbIter
  /\ id = 0
  /\ documents = << >>
  /\ ids = << >>
  /\ lengths = << >>
  /\ tmp = << >>
  /\ embeddings = << >>
  /\ log = << >>
  /\ passNo = 0
  /\ resumed = FALSE
  /\ indexAtStart = {}
  /\ startReads = {}

\* the chunker is not running
ChunkIdle ==
  /\ ch_text = << >>
  /\ ch_target = 0
  /\ ch_max = 0
  /\ ch_pc = "idle"
  /\ ch_units = << >>
  /\ ch_buffer = << >>
  /\ ch_tokens = 0
  /\ ch_chunks = << >>
  /\ ch_sizes = << >>
  /\ ch_rolled = 0

\* neither estimate_tokens nor length_weighted_mean is being called on its own
FnIdle ==
  /\ tk_text = << >>
  /\ tk_pc = "idle"
  /\ tk_tokens = 0
  /\ lw_embeddings = << >>
  /\ lw_lengths = << >>
  /\ lw_pc = "idle"
  /\ lw_result = [kind |-> "none"]

Init ==
  /\ \/ store \in [0..MaxId -> Case] /\ batch_size \in 1..MaxBatch
     \/ store = E2EStore /\ batch_size = 2
  /\ Fresh
  /\ ChunkIdle
  /\ FnIdle

\* --------------------------------------------------------------- actions
\* the slot is never read: progress keeps its initial value
StartProgress_ignored == progress

\* main.rs:65-69
StartProgress == IF progress_ks = << >> THEN 0 ELSE progress_ks[1]

Start ==
  /\ pc = "start"
  /\ progress' = StartProgress
  /\ startReads' = startReads \cup { StartProgress }
  /\ pc' = "iter"
  /\ UNCHANGED << chvars, fnvars, store, batch_size, progress_ks, index, db_iter, id, documents,
                  ids, lengths, tmp, embeddings, log, passNo, resumed, indexAtStart >>

AfterDoc_gt(docs) == IF Len(docs) > batch_size THEN "embed_batch" ELSE "iter"

\* main.rs:109: the flush test at the end of an iteration
AfterDoc(docs) == IF Len(docs) >= batch_size THEN "embed_batch" ELSE "iter"

\* main.rs:77: documents at or below the startup progress are skipped
Skips_lt(k) == k < progress

Skips(k) == k <= progress

\* main.rs:82-87: wrong category or empty text
IsSkippable_category_only(c) == c.case_type # TargetCaseType

IsSkippable(c) == c.case_type # TargetCaseType \/ c.full_text = ""

\* main.rs:71-102: one key of the scan up to the first external call
Visit ==
  /\ pc = "iter"
  /\ db_iter # << >>
  /\ LET k == Head(db_iter)
         c == store[k]
     IN /\ db_iter' = Tail(db_iter)
        /\ id' = k
        /\ IF Skips(k)
           THEN /\ pc' = "iter"
                /\ UNCHANGED << documents, ids, lengths, tmp, log >>
           ELSE IF ~c.valid
           THEN /\ pc' = "aborted"
                /\ log' = log \o << Ev("decode", k, << >>), Ev("abort", k, << "decode" >>) >>
                /\ UNCHANGED << documents, ids, lengths, tmp >>
           ELSE IF IsSkippable(c)
           THEN /\ pc' = "iter"
                /\ log' = Append(log, Ev("decode", k, << >>))
                /\ UNCHANGED << documents, ids, lengths, tmp >>
           ELSE IF Len(Chunks(k)) = 1
           THEN /\ documents' = documents \o Chunks(k)
                /\ ids' = Append(ids, k)
                /\ pc' = AfterDoc(documents')
                /\ log' = log \o << Ev("decode", k, << >>), Ev("chunk", k, Chunks(k)) >>
                /\ UNCHANGED << lengths, tmp >>
           ELSE /\ lengths' = lengths \o ChunkLens(c.full_text)
                /\ tmp' = Chunks(k)
                /\ pc' = "embed_multi"
                /\ log' = log \o << Ev("decode", k, << >>), Ev("chunk", k, Chunks(k)) >>
                /\ UNCHANGED << documents, ids >>
  /\ UNCHANGED << chvars, fnvars, store, batch_size, progress_ks, index, progress, embeddings,
                  passNo, resumed, indexAtStart, startReads >>

\* the error is reported and the pass carries on
Abort_continue(site) ==
  /\ pc' = pc
  /\ log' = Append(log, Ev("abort", id, << site >>))
  /\ UNCHANGED << chvars, fnvars, store, batch_size, progress_ks, index, progress,
                  db_iter, id, documents, ids, lengths, tmp, embeddings, passNo,
                  resumed, indexAtStart, startReads >>

\* a fallible external call fails: unwrap() panics, the process dies
Abort(site) ==
  /\ pc' = "aborted"
  /\ log' = Append(log, Ev("abort", id, << site >>))
  /\ UNCHANGED << chvars, fnvars, store, batch_size, progress_ks, index, progress, db_iter, id,
                  documents, ids, lengths, tmp, embeddings, passNo, resumed,
                  indexAtStart, startReads >>

\* main.rs:103: the embedding call of the multi-chunk branch
MultiEmbedInput == documents

EmbedMulti ==
  /\ pc = "embed_multi"
  /\ \/ /\ embeddings' = Embed(MultiEmbedInput)
        /\ log' = Append(log, Ev("embed_multi", id, MultiEmbedInput))
        /\ pc' = "upload_multi"
        /\ UNCHANGED << chvars, fnvars, store, batch_size, progress_ks, index, progress, db_iter, id,
                        documents, ids, lengths, tmp, passNo, resumed,
                        indexAtStart, startReads >>
     \/ Abort("embed_multi")

\* the multi-chunk upload also checkpoints its identifier
UploadMulti_checkpoint ==
  /\ pc = "upload_multi"
  /\ \/ /\ embeddings # << >>
        /\ index' = Upsert(index, << avg_embedding(embeddings, lengths) >>, << id >>)
        /\ log' = Append(log, Ev("upload_multi", id, << id >>))
        /\ tmp' = << >>
        /\ embeddings' = << >>
        /\ progress_ks' = << id >>
        /\ pc' = AfterDoc(documents)
        /\ UNCHANGED << chvars, fnvars, store, batch_size, progress, db_iter, id,
                        documents, ids, lengths, passNo, resumed,
                        indexAtStart, startReads >>
     \/ /\ embeddings = << >>
        /\ Abort("length_weighted_mean")
     \/ /\ embeddings # << >>
        /\ Abort("upload_multi")

\* main.rs:104-109: aggregate, upload under the current id, flush test.
\* length_weighted_mean reads embeddings[0] and panics on an empty slice.
UploadMulti ==
  /\ pc = "upload_multi"
  /\ \/ /\ embeddings # << >>
        /\ index' = Upsert(index, << avg_embedding(embeddings, lengths) >>, << id >>)
        /\ log' = Append(log, Ev("upload_multi", id, << id >>))
        /\ tmp' = << >>
        /\ embeddings' = << >>
        /\ pc' = AfterDoc(documents)
        /\ UNCHANGED << chvars, fnvars, store, batch_size, progress_ks, progress, db_iter, id,
                        documents, ids, lengths, passNo, resumed,
                        indexAtStart, startReads >>
     \/ /\ embeddings = << >>
        /\ Abort("length_weighted_mean")
     \/ /\ embeddings # << >>
        /\ Abort("upload_multi")

\* main.rs:110
EmbedBatch ==
  /\ pc = "embed_batch"
  /\ \/ /\ embeddings' = Embed(documents)
        /\ log' = Append(log, Ev("embed_batch", id, documents))
        /\ pc' = "upload_batch"
        /\ UNCHANGED << chvars, fnvars, store, batch_size, progress_ks, index, progress, db_iter, id,
                        documents, ids, lengths, tmp, passNo, resumed,
                        indexAtStart, startReads >>
     \/ Abort("embed_batch")

\* the upload error is swallowed instead of unwrapped
UploadBatch_swallow ==
  /\ pc = "upload_batch"
  /\ \/ /\ index' = Upsert(index, [ i \in 1..Len(embeddings) |-> Plain(embeddings[i]) ], ids)
        /\ log' = Append(log, Ev("upload_batch", id, ids))
     \/ /\ index' = index
        /\ log' = Append(log, Ev("upload_failed", id, ids))
  /\ embeddings' = << >>
  /\ pc' = "persist"
  /\ UNCHANGED << chvars, fnvars, store, batch_size, progress_ks, progress, db_iter, id,
                  documents, ids, lengths, tmp, passNo, resumed,
                  indexAtStart, startReads >>

\* main.rs:111
UploadBatch ==
  /\ pc = "upload_batch"
  /\ \/ /\ index' = Upsert(index, [ i \in 1..Len(embeddings) |-> Plain(embeddings[i]) ], ids)
        /\ log' = Append(log, Ev("upload_batch", id, ids))
        /\ embeddings' = << >>
        /\ pc' = "persist"
        /\ UNCHANGED << chvars, fnvars, store, batch_size, progress_ks, progress, db_iter, id,
                        documents, ids, lengths, tmp, passNo, resumed,
                        indexAtStart, startReads >>
     \/ Abort("upload_batch")

ProgressValue_first == ids[1]

\* main.rs:116: the value written to the slot
ProgressValue == id

\* the batch is not cleared after the flush
PersistProgress_noclear ==
  /\ pc = "persist"
  /\ progress_ks' = << ProgressValue >>
  /\ log' = Append(log, Ev("progress", id, << ProgressValue >>))
  /\ pc' = "iter"
  /\ UNCHANGED << chvars, fnvars, store, batch_size, index, progress, db_iter, id, documents, ids,
                  lengths, tmp, embeddings, passNo, resumed, indexAtStart, startReads >>

\* main.rs:113-121
PersistProgress ==
  /\ pc = "persist"
  /\ documents' = << >>
  /\ ids' = << >>
  /\ progress_ks' = << ProgressValue >>
  /\ log' = Append(log, Ev("progress", id, << ProgressValue >>))
  /\ pc' = "iter"
  /\ UNCHANGED << chvars, fnvars, store, batch_size, index, progress, db_iter, id, lengths, tmp,
                  embeddings, passNo, resumed, indexAtStart, startReads >>

\* the tail batch is dropped at the end of the store
EndOfStore_noflush ==
  /\ pc = "iter"
  /\ db_iter = << >>
  /\ pc' = "finish"
  /\ documents' = << >>
  /\ ids' = << >>
  /\ UNCHANGED << chvars, fnvars, store, batch_size, progress_ks, index, progress,
                  db_iter, id, lengths, tmp, embeddings, log, passNo, resumed,
                  indexAtStart, startReads >>

\* main.rs:71 (iterator exhausted) and 124
EndOfStore ==
  /\ pc = "iter"
  /\ db_iter = << >>
  /\ pc' = IF documents # << >> THEN "final_embed" ELSE "finish"
  /\ UNCHANGED << chvars, fnvars, store, batch_size, progress_ks, index, progress, db_iter, id,
                  documents, ids, lengths, tmp, embeddings, log, passNo, resumed,
                  indexAtStart, startReads >>

\* main.rs:125
FinalEmbed ==
  /\ pc = "final_embed"
  /\ \/ /\ embeddings' = Embed(documents)
        /\ log' = Append(log, Ev("embed_final", id, documents))
        /\ pc' = "final_upload"
        /\ UNCHANGED << chvars, fnvars, store, batch_size, progress_ks, index, progress, db_iter, id,
                        documents, ids, lengths, tmp, passNo, resumed,
                        indexAtStart, startReads >>
     \/ Abort("embed_final")

\* main.rs:126-133
FinalUpload ==
  /\ pc = "final_upload"
  /\ \/ /\ index' = Upsert(index, [ i \in 1..Len(embeddings) |-> Plain(embeddings[i]) ], ids)
        /\ log' = Append(log, Ev("upload_final", id, ids))
        /\ embeddings' = << >>
        /\ documents' = << >>
        /\ ids' = << >>
        /\ pc' = "finish"
        /\ UNCHANGED << chvars, fnvars, store, batch_size, progress_ks, progress, db_iter, id,
                        lengths, tmp, passNo, resumed, indexAtStart, startReads >>
     \/ Abort("upload_final")

\* main.rs:136-140
Finish ==
  /\ pc = "finish"
  /\ pc' = "done"
  /\ UNCHANGED << chvars, fnvars, store, batch_size, progress_ks, index, progress, db_iter, id,
                  documents, ids, lengths, tmp, embeddings, log, passNo, resumed,
                  indexAtStart, startReads >>

Running == { "start", "iter", "embed_multi", "upload_multi", "embed_batch",
             "upload_batch", "persist", "final_embed", "final_upload", "finish" }

\* an external supervisor terminates the process at any point (spec section 5)
Kill ==
  /\ pc \in Running
  /\ pc' = "aborted"
  /\ UNCHANGED << chvars, fnvars, store, batch_size, progress_ks, index, progress, db_iter, id,
                  documents, ids, lengths, tmp, embeddings, log, passNo, resumed,
                  indexAtStart, startReads >>

\* the operator runs the program again: main.rs:58-63 against the same
\* store, progress slot and collection
Restart ==
  /\ pc \in { "aborted", "done" }
  /\ passNo < MaxRestarts
  /\ passNo' = passNo + 1
  /\ resumed' = (pc = "aborted")
  /\ indexAtStart' = DOMAIN index
  /\ pc' = "start"
  /\ progress' = 0
  /\ db_iter' = DbIter
  /\ id' = 0
  /\ documents' = << >>
  /\ ids' = << >>
  /\ lengths' = << >>
  /\ tmp' = << >>
  /\ embeddings' = << >>
  /\ log' = << >>
  /\ UNCHANGED << chvars, fnvars, store, batch_size, progress_ks, index, startReads >>

Next ==
  \/ Start
  \/ Visit
  \/ EmbedMulti
  \/ UploadMulti
  \/ EmbedBatch
  \/ UploadBatch
  \/ PersistProgress
  \/ EndOfStore
  \/ FinalEmbed
  \/ FinalUpload
  \/ Finish
  \/ Kill
  \/ Restart

Spec == Init /\ [][Next]_vars

\* ------------------------------------------- restarts without failures
\* The pipeline under a supervisor that starts it again after every abort,
\* with a store whose documents all decode and with embedding and upload
\* calls that never fail.  The only abort left is a panic of the program
\* itself.
InitLive ==
  /\ store \in [0..MaxId -> Case \ { Bad }]
  /\ batch_size \in 1..MaxBatch
  /\ Fresh
  /\ ChunkIdle
  /\ FnIdle

\* main.rs:103, the call succeeds
EmbedMultiOk == EmbedMulti /\ pc' # "aborted"

\* main.rs:104-109, the upload succeeds; length_weighted_mean may panic
UploadMultiOk ==
  UploadMulti /\ (pc' = "aborted" => log'[Len(log')].arg = << "length_weighted_mean" >>)

\* main.rs:110, the call succeeds
EmbedBatchOk == EmbedBatch /\ pc' # "aborted"

\* main.rs:111, the upload succeeds
UploadBatchOk == UploadBatch /\ pc' # "aborted"

\* main.rs:125, the call succeeds
FinalEmbedOk == FinalEmbed /\ pc' # "aborted"

\* main.rs:126-133, the upload succeeds
FinalUploadOk == FinalUpload /\ pc' # "aborted"

\* the supervisor starts the program again after an abort, any number of
\* times (passNo stops counting at MaxRestarts)
RestartAfterAbort ==
  /\ pc = "aborted"
  /\ passNo' = IF passNo < MaxRestarts THEN passNo + 1 ELSE passNo
  /\ resumed' = TRUE
  /\ indexAtStart' = DOMAIN index
  /\ pc' = "start"
  /\ progress' = 0
  /\ db_iter' = DbIter
  /\ id' = 0
  /\ documents' = << >>
  /\ ids' = << >>
  /\ lengths' = << >>
  /\ tmp' = << >>
  /\ embeddings' = << >>
  /\ log' = << >>
  /\ UNCHANGED << chvars, fnvars, store, batch_size, progress_ks, index, startReads >>

NextLive ==
  \/ Start
  \/ Visit
  \/ EmbedMultiOk
  \/ UploadMultiOk
  \/ EmbedBatchOk
  \/ UploadBatchOk
  \/ PersistProgress
  \/ EndOfStore
  \/ FinalEmbedOk
  \/ FinalUploadOk
  \/ Finish
  \/ RestartAfterAbort

\* the process keeps running and the supervisor keeps restarting it
SpecLive == InitLive /\ [][NextLive]_vars /\ WF_vars(NextLive)

\* ================================================= Part II: the chunker
MaxLen == 4         \* texts have at most MaxLen characters
MaxTok == 2         \* target_tokens <= max_tokens <= MaxTok

\* The characters of a text: an ASCII letter, an ASCII space, the line
\* break, a non-ASCII letter, and a non-ASCII sentence terminator (one of
\* the four at main.rs:201).
Chars == { "a", "sp", "nl", "han", "stop" }
IsAscii(ch) == ch \in { "a", "sp", "nl" }
IsWhitespace(ch) == ch \in { "sp", "nl" }
Seps == { "stop", "nl" }

Texts == UNION { [1..n -> Chars] : n \in 0..MaxLen }

\* estimate_tokens, main.rs:158-178: the loop over the characters with its
\* two accumulators
RECURSIVE EstFrom(_, _, _)
EstFrom(text, tokens, ascii_run) ==
  IF text = << >>
  THEN IF ascii_run > 0 THEN tokens + 1 ELSE tokens
  ELSE IF IsAscii(Head(text))
       THEN IF ascii_run + 1 = 3
            THEN EstFrom(Tail(text), tokens + 1, 0)
            ELSE EstFrom(Tail(text), tokens, ascii_run + 1)
       ELSE EstFrom(Tail(text), (IF ascii_run > 0 THEN tokens + 1 ELSE tokens) + 1, 0)

\* the pending partial ASCII run is dropped at a non-ASCII character
RECURSIVE EstFrom_noflush(_, _, _)
EstFrom_noflush(text, tokens, ascii_run) ==
  IF text = << >>
  THEN IF ascii_run > 0 THEN tokens + 1 ELSE tokens
  ELSE IF IsAscii(Head(text))
       THEN IF ascii_run + 1 = 3
            THEN EstFrom_noflush(Tail(text), tokens + 1, 0)
            ELSE EstFrom_noflush(Tail(text), tokens, ascii_run + 1)
       ELSE EstFrom_noflush(Tail(text), tokens + 1, 0)

estimate_tokens_noflush(text) == EstFrom_noflush(text, 0, 0)

estimate_tokens(text) == EstFrom(text, 0, 0)

\* str::split("\n"), main.rs:195
RECURSIVE SplitLines(_)
SplitLines(text) ==
  IF \A i \in 1..Len(text) : text[i] # "nl"
  THEN << text >>
  ELSE LET i == CHOOSE j \in 1..Len(text) :
                  text[j] = "nl" /\ \A k \in 1..(j - 1) : text[k] # "nl"
       IN << SubSeq(text, 1, i - 1) >> \o SplitLines(SubSeq(text, i + 1, Len(text)))

\* str::trim, main.rs:196
RECURSIVE TrimStart(_)
TrimStart(p) == IF p # << >> /\ IsWhitespace(Head(p)) THEN TrimStart(Tail(p)) ELSE p

RECURSIVE TrimEnd(_)
TrimEnd(p) ==
  IF p # << >> /\ IsWhitespace(p[Len(p)]) THEN TrimEnd(SubSeq(p, 1, Len(p) - 1)) ELSE p

Trim(p) == TrimEnd(TrimStart(p))

\* str::split_inclusive, main.rs:181-183
RECURSIVE split_by_punctuation(_, _)
split_by_punctuation(text, seps) ==
  IF text = << >> THEN << >>
  ELSE IF \A i \in 1..Len(text) : text[i] \notin seps
  THEN << text >>
  ELSE LET i == CHOOSE j \in 1..Len(text) :
                  text[j] \in seps /\ \A k \in 1..(j - 1) : text[k] \notin seps
       IN << SubSeq(text, 1, i) >> \o split_by_punctuation(SubSeq(text, i + 1, Len(text)), seps)

\* [T]::concat
RECURSIVE Concat(_)
Concat(ss) == IF ss = << >> THEN << >> ELSE Head(ss) \o Concat(Tail(ss))

\* main.rs:195-202: the units of every trimmed non-empty paragraph, in order
RECURSIVE UnitsOf(_)
UnitsOf(paras) ==
  IF paras = << >> THEN << >>
  ELSE (IF Trim(Head(paras)) = << >>
        THEN << >>
        ELSE split_by_punctuation(Trim(Head(paras)), Seps)) \o UnitsOf(Tail(paras))

\* main.rs:218-224: pop from the tail while over target and more than one left
RECURSIVE Rollback(_, _, _)
Rollback(buffer, buffer_tokens, rollback) ==
  IF buffer_tokens > ch_target /\ Len(buffer) > 1
  THEN Rollback(SubSeq(buffer, 1, Len(buffer) - 1),
                buffer_tokens - estimate_tokens(buffer[Len(buffer)]),
                Append(rollback, buffer[Len(buffer)]))
  ELSE [buffer |-> buffer, buffer_tokens |-> buffer_tokens, rollback |-> rollback]

Reverse(s) == [ i \in 1..Len(s) |-> s[Len(s) + 1 - i] ]

\* the popped units are put back without .rev()
Reinstated_forward(rollback) == rollback

\* main.rs:235: rollback.into_iter().rev()
Reinstated(rollback) == Reverse(rollback)

RECURSIVE SumTokens(_)
SumTokens(units) ==
  IF units = << >> THEN 0 ELSE estimate_tokens(Head(units)) + SumTokens(Tail(units))

InitChunk ==
  /\ store = E2EStore
  /\ batch_size = 2
  /\ Fresh
  /\ FnIdle
  /\ ch_text \in Texts
  /\ ch_max \in 0..MaxTok
  /\ ch_target \in 0..ch_max
  /\ ch_pc = "call"
  /\ ch_units = << >>
  /\ ch_buffer = << >>
  /\ ch_tokens = 0
  /\ ch_chunks = << >>
  /\ ch_sizes = << >>
  /\ ch_rolled = 0

\* main.rs:190-201
ChunkBegin ==
  /\ ch_pc = "call"
  /\ ch_units' = UnitsOf(SplitLines(ch_text))
  /\ ch_pc' = "scan"
  /\ UNCHANGED << mainvars, fnvars, ch_text, ch_target, ch_max, ch_buffer, ch_tokens,
                  ch_chunks, ch_sizes, ch_rolled >>

\* main.rs:202-240: one unit
ChunkUnit ==
  /\ ch_pc = "scan"
  /\ ch_units # << >>
  /\ LET unit == Head(ch_units)
         pushed == Append(ch_buffer, unit)
         total == ch_tokens + estimate_tokens(unit)
         r == Rollback(pushed, total, << >>)
     IN /\ ch_units' = Tail(ch_units)
        /\ IF total <= ch_max
           THEN /\ ch_buffer' = pushed
                /\ ch_tokens' = total
                /\ UNCHANGED << ch_chunks, ch_sizes, ch_rolled >>
           ELSE /\ ch_chunks' = IF r.buffer # << >>
                                THEN Append(ch_chunks, Concat(r.buffer))
                                ELSE ch_chunks
                /\ ch_sizes' = IF r.buffer # << >>
                               THEN Append(ch_sizes, Len(r.buffer))
                               ELSE ch_sizes
                /\ ch_buffer' = Reinstated(r.rollback)
                /\ ch_tokens' = SumTokens(Reinstated(r.rollback))
                /\ ch_rolled' = IF Len(r.rollback) > ch_rolled
                                THEN Len(r.rollback) ELSE ch_rolled
  /\ UNCHANGED << mainvars, fnvars, ch_text, ch_target, ch_max, ch_pc >>

\* main.rs:243-247
ChunkEnd ==
  /\ ch_pc = "scan"
  /\ ch_units = << >>
  /\ ch_chunks' = IF ch_buffer # << >> THEN Append(ch_chunks, Concat(ch_buffer)) ELSE ch_chunks
  /\ ch_sizes' = IF ch_buffer # << >> THEN Append(ch_sizes, Len(ch_buffer)) ELSE ch_sizes
  /\ ch_pc' = "done"
  /\ UNCHANGED << mainvars, fnvars, ch_text, ch_target, ch_max, ch_units, ch_buffer,
                  ch_tokens, ch_rolled >>

NextChunk ==
  \/ ChunkBegin
  \/ ChunkUnit
  \/ ChunkEnd

SpecChunk == InitChunk /\ [][NextChunk]_vars

\* ========================================= Part III: the pure functions
\* estimate_tokens called on a whole text
InitTokens ==
  /\ store = E2EStore
  /\ batch_size = 2
  /\ Fresh
  /\ ChunkIdle
  /\ tk_text \in Texts
  /\ tk_pc = "call"
  /\ tk_tokens = 0
  /\ lw_embeddings = << >>
  /\ lw_lengths = << >>
  /\ lw_pc = "idle"
  /\ lw_result = [kind |-> "none"]

\* main.rs:154-179
EstimateTokens ==
  /\ tk_pc = "call"
  /\ tk_tokens' = estimate_tokens(tk_text)
  /\ tk_pc' = "done"
  /\ UNCHANGED << mainvars, chvars, tk_text, lw_embeddings, lw_lengths, lw_pc, lw_result >>

NextTokens == EstimateTokens

SpecTokens == InitTokens /\ [][NextTokens]_vars

MaxVecs == 2        \* length_weighted_mean gets at most MaxVecs vectors and lengths
MaxDim == 2         \* each vector has at most MaxDim components

Vectors == UNION { [1..d -> 0..1] : d \in 0..MaxDim }

RECURSIVE WeightedSum(_, _, _, _)
\* main.rs:278-282 for component i: the sum of emb[i] * w over the first n pairs
WeightedSum(embs, lens, i, n) ==
  IF n = 0 THEN 0
  ELSE WeightedSum(embs, lens, i, n - 1) + embs[n][i] * lens[n]

RECURSIVE WeightSum(_, _)
\* main.rs:283
WeightSum(lens, n) == IF n = 0 THEN 0 ELSE WeightSum(lens, n - 1) + lens[n]

\* length_weighted_mean, main.rs:273-293.  embeddings[0] panics on an empty
\* slice and emb[i] panics on a vector shorter than the first; zip() stops
\* at the shorter sequence.  The quotient result[i] / weight_sum is kept as
\* numerator and denominator.
length_weighted_mean(embs, lens) ==
  IF embs = << >> THEN [kind |-> "panic"]
  ELSE LET dim == Len(embs[1])
           n == Min(Len(embs), Len(lens))
       IN IF \E j \in 1..n : Len(embs[j]) < dim
          THEN [kind |-> "panic"]
          ELSE [kind |-> "ok",
                num |-> [ i \in 1..dim |-> WeightedSum(embs, lens, i, n) ],
                den |-> IF WeightSum(lens, n) > 0 THEN WeightSum(lens, n) ELSE 1]

InitMean ==
  /\ store = E2EStore
  /\ batch_size = 2
  /\ Fresh
  /\ ChunkIdle
  /\ tk_text = << >>
  /\ tk_pc = "idle"
  /\ tk_tokens = 0
  /\ lw_embeddings \in UNION { [1..n -> Vectors] : n \in 0..MaxVecs }
  /\ lw_lengths \in UNION { [1..n -> { 0, 1, 3 }] : n \in 0..MaxVecs }
  /\ lw_pc = "call"
  /\ lw_result = [kind |-> "none"]

\* main.rs:273-293
LengthWeightedMean ==
  /\ lw_pc = "call"
  /\ lw_result' = length_weighted_mean(lw_embeddings, lw_lengths)
  /\ lw_pc' = "done"
  /\ UNCHANGED << mainvars, chvars, tk_text, tk_pc, tk_tokens, lw_embeddings, lw_lengths >>

NextMean == LengthWeightedMean

SpecMean == InitMean /\ [][NextMean]_vars

\* ============================================================ properties
\* the value of the progress slot, 0 when the slot is absent
Persisted == IF progress_ks = << >> THEN 0 ELSE progress_ks[1]

\* the document decodes, has the target category and a non-empty text
Eligible(d) ==
  /\ store[d].valid
  /\ store[d].case_type = "criminal"
  /\ store[d].full_text # ""

\* the document decodes and is filtered out at main.rs:82-87
FilteredOut(d) ==
  /\ store[d].valid
  /\ (store[d].case_type # "criminal" \/ store[d].full_text = "")

UploadOps == { "upload_multi", "upload_batch", "upload_final" }
EmbedOps == { "embed_multi", "embed_batch", "embed_final" }

Logged(op) == { i \in 1..Len(log) : log[i].op = op }
LoggedIn(ops) == { i \in 1..Len(log) : log[i].op \in ops }

\* the identifiers this pass has uploaded so far
PassUploads == UNION { Range(log[i].arg) : i \in LoggedIn(UploadOps) }

\* how many times this pass has uploaded a point with identifier d
UploadCount(d) ==
  Cardinality(UNION { { << i, j >> : j \in { n \in 1..Len(log[i].arg) : log[i].arg[n] = d } } :
                      i \in LoggedIn(UploadOps) })

Last(s) == s[Len(s)]

\* ---- C1
\* C1: every eligible document whose identifier lies above a Progress value
\* read at a startup and at or below the persisted Progress is in the vector
\* index, also after aborts and restarts; and every Progress write of a pass
\* directly follows the successful upload of the same flush.
C1_ProgressOnlyAfterUpload ==
  /\ \A p \in startReads : \A d \in DOMAIN store :
       (Eligible(d) /\ d > p /\ d <= Persisted) => d \in DOMAIN index
  /\ \A i \in Logged("progress") :
       /\ i > 1
       /\ log[i - 1].op = "upload_batch"
       /\ log[i - 1].id = log[i].id
       /\ log[i].arg[1] \in Range(log[i - 1].arg)

\* a resumed pass has written Progress past a multi-chunk document
C1_Witness ==
  /\ resumed
  /\ Logged("progress") # {}
  /\ \E d \in DOMAIN store :
       Eligible(d) /\ store[d].full_text = "long" /\ d > progress /\ d <= Persisted

\* ---- C2
\* C2: the progress slot never loses its value and every value written to it
\* is greater than or equal to the value it replaces, across flushes, aborts
\* and restarts.
C2_ProgressMonotone ==
  [][ progress_ks' # progress_ks =>
        /\ progress_ks' # << >>
        /\ progress_ks # << >> => progress_ks'[1] >= progress_ks[1] ]_vars

\* a pass that started from a non-zero persisted Progress has overwritten it
C2_Witness ==
  /\ passNo >= 1
  /\ progress > 0
  /\ Logged("progress") # {}
  /\ Persisted > progress

\* ---- C3
\* C3 as claimed: after every successful flush, size-triggered or final, the
\* persisted Progress is the identifier of the last document of the most
\* recently uploaded batch.
C3_ProgressIsLastFlushed ==
  (pc \in { "iter", "finish", "done" } /\ LoggedIn({ "upload_batch", "upload_final" }) # {})
    => LET i == CHOOSE j \in LoggedIn({ "upload_batch", "upload_final" }) :
                  \A k \in LoggedIn({ "upload_batch", "upload_final" }) : k <= j
       IN progress_ks = << Last(log[i].arg) >>

\* C3 amended: after every successful size-triggered flush the persisted
\* Progress is the identifier of the last document of the most recent
\* size-triggered batch; the final flush writes nothing, so with no
\* size-triggered flush in the pass the slot still holds what startup read.
C3_ProgressIsLastSizeFlushed ==
  (pc \notin { "start", "persist", "aborted" }) =>
     IF Logged("upload_batch") # {}
     THEN LET i == CHOOSE j \in Logged("upload_batch") :
                      \A k \in Logged("upload_batch") : k <= j
          IN progress_ks = << Last(log[i].arg) >>
     ELSE Persisted = progress

\* a pass ended after a size-triggered flush followed by a final flush
C3_Witness ==
  /\ pc = "done"
  /\ Logged("upload_batch") # {}
  /\ Logged("upload_final") # {}

\* ---- C4
\* C4: a pass that read Progress p at startup decodes, chunks, embeds and
\* uploads only documents whose identifier is greater than p.
C4_NothingAtOrBelowProgress ==
  \A i \in 1..Len(log) :
    /\ log[i].op \in { "decode", "chunk" } => log[i].id > progress
    /\ log[i].op \in EmbedOps => \A t \in Range(log[i].arg) : t[1] > progress
    /\ log[i].op \in UploadOps => \A d \in Range(log[i].arg) : d > progress

\* a pass resumed from a non-zero Progress, with eligible documents below
\* it, has run to its end and uploaded something
C4_Witness ==
  /\ pc = "done"
  /\ progress > 0
  /\ \E d \in DOMAIN store : Eligible(d) /\ d > 0 /\ d <= progress
  /\ LoggedIn(UploadOps) # {}

\* ---- C5
\* C5: the embedding call made for a document with more than one chunk
\* receives exactly that document's chunks in order, and the vector stored
\* under its identifier is computed from embeddings of its own chunks only.
C5_MultiChunkEmbedsOwnChunks ==
  /\ \A i \in Logged("embed_multi") :
       Len(Chunks(log[i].id)) > 1 => log[i].arg = Chunks(log[i].id)
  /\ \A d \in DOMAIN index :
       Len(Chunks(d)) > 1 => \A t \in Range(index[d].embs) : t[1] = d

\* ---- C6
\* C6: within one pass no identifier is uploaded more than once.
C6_AtMostOnceUpload ==
  \A d \in DOMAIN store : UploadCount(d) <= 1

\* a pass has run to its end with an immediate multi-chunk upload and a
\* size-triggered batch upload
C6_Witness ==
  /\ pc = "done"
  /\ Logged("upload_multi") # {}
  /\ Logged("upload_batch") # {}

\* ---- C7
\* C7: after a termination and a restart, the documents that were in the
\* index before the termination and are uploaded again number at most
\* batch_size.
C7_ReuploadAtMostOneBatch ==
  resumed => Cardinality(PassUploads \cap indexAtStart) <= batch_size

\* ---- C8
\* C8: a document of another category or with empty text is never chunked,
\* batched, embedded or uploaded, its identifier is never written as
\* Progress, and visiting it changes neither the pending batch nor the
\* progress slot.
C8_FilteredUntouched ==
  /\ [] (\A d \in DOMAIN store : FilteredOut(d) =>
           /\ \A i \in 1..Len(log) :
                /\ log[i].op = "chunk" => log[i].id # d
                /\ log[i].op \in EmbedOps => \A t \in Range(log[i].arg) : t[1] # d
                /\ log[i].op \in UploadOps => d \notin Range(log[i].arg)
                /\ log[i].op = "progress" => log[i].arg # << d >>
           /\ d \notin Range(ids)
           /\ \A t \in Range(documents) : t[1] # d
           /\ d \notin DOMAIN index)
  /\ [][ (pc = "iter" /\ db_iter # << >> /\ FilteredOut(Head(db_iter))) =>
           /\ documents' = documents
           /\ ids' = ids
           /\ progress_ks' = progress_ks
           /\ index' = index ]_vars

\* both kinds of filtered document were visited while a document was pending
C8_Witness ==
  /\ documents # << >>
  /\ \E i \in Logged("decode") : store[log[i].id].case_type # "criminal"
  /\ \E i \in Logged("decode") : store[log[i].id] = NoText

\* ---- C9
\* what the scenario pass does, in order
E2ELog ==
  << Ev("decode", 1, << >>), Ev("chunk", 1, << << 1, 1 >> >>),
     Ev("decode", 2, << >>), Ev("chunk", 2, << << 2, 1 >> >>),
     Ev("embed_batch", 2, << << 1, 1 >>, << 2, 1 >> >>),
     Ev("upload_batch", 2, << 1, 2 >>),
     Ev("progress", 2, << 2 >>),
     Ev("decode", 3, << >>), Ev("chunk", 3, << << 3, 1 >> >>),
     Ev("decode", 4, << >>),
     Ev("decode", 5, << >>),
     Ev("embed_final", 5, << << 3, 1 >> >>),
     Ev("upload_final", 5, << 3 >>) >>

\* C9: on the scenario store with batch_size 2 and no persisted Progress the
\* pass uploads the batch {1,2}, then writes Progress 2, then at the end of
\* the store uploads {3} in a final flush, and nothing else; 4 and 5 are
\* decoded but never chunked or uploaded.
C9_EndToEnd ==
  (store = E2EStore /\ batch_size = 2 /\ passNo = 0) =>
     /\ LET n == Len(SelectSeq(log, LAMBDA e : e.op # "abort"))
        IN n <= Len(E2ELog) /\ SubSeq(log, 1, n) = SubSeq(E2ELog, 1, n)
     /\ pc = "done" =>
          /\ log = E2ELog
          /\ progress_ks = << 2 >>
          /\ DOMAIN index = { 1, 2, 3 }

\* the scenario pass has run to its end
C9_Witness ==
  /\ store = E2EStore
  /\ passNo = 0
  /\ pc = "done"

\* ---- C10
\* the text with its paragraphs trimmed, the empty ones dropped and the
\* line breaks removed
RECURSIVE Cleaned(_)
Cleaned(paras) ==
  IF paras = << >> THEN << >> ELSE Trim(Head(paras)) \o Cleaned(Tail(paras))

\* C10: the chunks emitted so far, then the buffer, then the units still to
\* scan always spell the trimmed paragraphs of the text in order; so the
\* chunks returned concatenate to exactly the units of the trimmed
\* non-empty paragraphs, nothing dropped, duplicated or reordered.
C10_ChunksCoverText ==
  /\ ch_pc = "scan" =>
       Concat(ch_chunks) \o Concat(ch_buffer) \o Concat(ch_units)
         = Cleaned(SplitLines(ch_text))
  /\ ch_pc = "done" =>
       /\ Concat(ch_chunks) = Cleaned(SplitLines(ch_text))
       /\ Concat(ch_chunks) = Concat(UnitsOf(SplitLines(ch_text)))
       /\ \A i \in 1..Len(ch_chunks) : ch_chunks[i] # << >>

\* a call has returned after an overflow rolled back two units or more
C10_Witness ==
  /\ ch_pc = "done"
  /\ ch_rolled >= 2
  /\ ch_target < ch_max
  /\ Len(ch_chunks) >= 2

\* ---- C11
\* C11: every emitted chunk made of more than one unit, the chunk of the
\* final flush included, has an estimated token count of at most
\* max_tokens, for every target_tokens <= max_tokens.
C11_MultiUnitChunkWithinMax ==
  \A i \in 1..Len(ch_chunks) :
    ch_sizes[i] > 1 => estimate_tokens(ch_chunks[i]) <= ch_max

\* ---- C12
\* the ASCII runs of a text that cannot be extended: <<first, last>> positions
AsciiRuns(text) ==
  { r \in (1..Len(text)) \X (1..Len(text)) :
      /\ r[1] <= r[2]
      /\ \A k \in r[1]..r[2] : text[k] \in { "a", "sp", "nl" }
      /\ (r[1] = 1 \/ text[r[1] - 1] \notin { "a", "sp", "nl" })
      /\ (r[2] = Len(text) \/ text[r[2] + 1] \notin { "a", "sp", "nl" }) }

RECURSIVE SumCeilThirds(_)
SumCeilThirds(runs) ==
  IF runs = {} THEN 0
  ELSE LET r == CHOOSE x \in runs : TRUE
       IN ((r[2] - r[1] + 1) + 2) \div 3 + SumCeilThirds(runs \ { r })

\* C12: estimate_tokens returns the number of non-ASCII characters plus
\* ceil(n/3) for every maximal run of n ASCII characters; 0 for the empty
\* text, 1 for "abc", 2 for two CJK characters, 2 for "ab" + one CJK
\* character.
C12_EstimateTokensValue ==
  tk_pc = "done" =>
    /\ tk_tokens = Cardinality({ k \in 1..Len(tk_text) : tk_text[k] \notin { "a", "sp", "nl" } })
                     + SumCeilThirds(AsciiRuns(tk_text))
    /\ tk_text = << >> => tk_tokens = 0
    /\ tk_text = << "a", "a", "a" >> => tk_tokens = 1
    /\ tk_text = << "han", "han" >> => tk_tokens = 2
    /\ tk_text = << "a", "a", "han" >> => tk_tokens = 2

\* the call returned for a partial ASCII run, a non-ASCII character and a
\* second ASCII run
C12_Witness ==
  /\ tk_pc = "done"
  /\ tk_text = << "a", "a", "han", "a" >>
  /\ tk_tokens = 3

\* ---- C14
\* C14: called with as many lengths as vectors, length_weighted_mean fails
\* whenever the vectors do not all have the dimension of the first one, be
\* the odd one shorter or longer; it never returns a result computed from
\* a truncated vector.
C14_DimensionMismatchFails ==
  ( /\ lw_pc = "done"
    /\ lw_embeddings # << >>
    /\ Len(lw_lengths) = Len(lw_embeddings)
    /\ \E j \in 1..Len(lw_embeddings) : Len(lw_embeddings[j]) # Len(lw_embeddings[1]) )
  => lw_result.kind = "panic"

\* ---- C13
\* C13: a failed decode, embedding call or upload call is the last thing
\* its pass does: the process is dead, no embedding, upload or Progress
\* write follows in that pass, and neither the failing step nor anything
\* after it in the pass changes the progress slot or the index.
C13_FailureAbortsPass ==
  /\ [] (\A i \in Logged("abort") : i = Len(log) /\ pc = "aborted")
  /\ [][ ( \/ Logged("abort") # {}
           \/ (log' # << >> /\ log'[Len(log')].op = "abort") )
         => (progress_ks' = progress_ks /\ index' = index) ]_vars

\* an upload of a batch failed in a pass that had already written Progress
C13_Witness ==
  /\ pc = "aborted"
  /\ log # << >>
  /\ log[Len(log)] = Ev("abort", id, << "upload_batch" >>)
  /\ Logged("progress") # {}

\* ---- C15
\* C15: whenever the loop calls the aggregator, the vectors are non-empty,
\* there are as many lengths as vectors, and the lengths are exactly the
\* chunk lengths of the document being processed.
C15_AggregatorInputs ==
  pc = "upload_multi" =>
    /\ embeddings # << >>
    /\ Len(lengths) = Len(embeddings)
    /\ lengths = ChunkLens(store[id].full_text)

\* ---- C16
\* C16: the pending batch never exceeds batch_size and is below it at the
\* end of every iteration; a size-triggered flush is one embedding call
\* and one upload on exactly batch_size single-chunk documents, followed by
\* one Progress write of the last identifier, after which the batch is empty.
C16_FlushShape ==
  /\ Len(documents) <= batch_size
  /\ Len(ids) = Len(documents)
  /\ pc = "iter" => Len(documents) < batch_size
  /\ \A i \in Logged("embed_batch") :
       i < Len(log) => log[i + 1].op \in { "upload_batch", "abort" }
  /\ \A i \in Logged("upload_batch") :
       /\ Len(log[i].arg) = batch_size
       /\ \A j \in 1..Len(log[i].arg) : Len(ChunkLens(store[log[i].arg[j]].full_text)) = 1
       /\ i > 1
       /\ log[i - 1] = Ev("embed_batch", log[i].id,
                          [ j \in 1..Len(log[i].arg) |-> << log[i].arg[j], 1 >> ])
       /\ i < Len(log) => log[i + 1] = Ev("progress", log[i].id, << Last(log[i].arg) >>)
  /\ \A i \in Logged("progress") :
       /\ i > 1 /\ log[i - 1].op = "upload_batch"
       /\ (i = Len(log) /\ pc = "iter") => (documents = << >> /\ ids = << >>)

\* a flush of a batch of two or more has just written Progress
C16_Witness ==
  /\ pc = "iter"
  /\ batch_size >= 2
  /\ log # << >>
  /\ log[Len(log)].op = "progress"

\* ---- C17
\* C17: visiting, embedding and uploading a document with more than one
\* chunk changes neither the pending batch nor the progress slot, and its
\* upload is followed by the next iteration, not by a flush.
C17_MultiChunkLeavesBatch ==
  [][ /\ ( /\ pc = "iter"
           /\ db_iter # << >>
           /\ Head(db_iter) > progress
           /\ Eligible(Head(db_iter))
           /\ Len(ChunkLens(store[Head(db_iter)].full_text)) > 1 )
         => /\ documents' = documents
            /\ ids' = ids
            /\ progress_ks' = progress_ks
            /\ pc' \in { "embed_multi", "aborted" }
      /\ ( /\ pc \in { "embed_multi", "upload_multi" }
           /\ Len(ChunkLens(store[id].full_text)) > 1 )
         => /\ documents' = documents
            /\ ids' = ids
            /\ progress_ks' = progress_ks
            /\ pc' \in { "upload_multi", "iter", "aborted" } ]_vars

\* a multi-chunk document has just been uploaded while a document is pending
C17_Witness ==
  /\ pc = "iter"
  /\ documents # << >>
  /\ log # << >>
  /\ log[Len(log)].op = "upload_multi"
  /\ Len(ChunkLens(store[id].full_text)) > 1

\* ---- C18
\* C18: when a pass has come to the end of the store without abort, every
\* eligible document above the Progress read at startup was uploaded by
\* this pass, a tail batch shorter than batch_size included, and the
\* pending batch is empty.
C18_TerminalAllUploaded ==
  pc \in { "finish", "done" } =>
    /\ \A d \in DOMAIN store :
         (Eligible(d) /\ d > progress) => (d \in PassUploads /\ d \in DOMAIN index)
    /\ documents = << >>
    /\ ids = << >>

\* a pass has ended with a final flush of a tail shorter than batch_size
C18_Witness ==
  /\ pc = "done"
  /\ \E i \in Logged("upload_final") : Len(log[i].arg) < batch_size

\* ---- C20
\* C20: a first pass that found no persisted Progress and ran to its end
\* has uploaded every eligible document of the store, identifier 0 included.
C20_FreshPassCoversAll ==
  (pc = "done" /\ passNo = 0) =>
    \A d \in DOMAIN store : Eligible(d) => d \in DOMAIN index

\* ---- C19
\* C19: restarted after every abort, with services that never fail, the
\* pipeline eventually ends a pass with every eligible document (above the
\* default Progress 0) in the index, whatever the store holds.
C19_EventuallyTerminal ==
  <>( /\ pc = "done"
      /\ \A d \in DOMAIN store : (Eligible(d) /\ d > 0) => d \in DOMAIN index )

====
